---- MODULE Spec2Model ----
(***************************************************************************)
(* Client-side read-model synchronisation of reprint-ui: the query cache   *)
(* (one QueryClient, staleTime 5 min, retry 1), the views that read it     *)
(* (library list, book detail, My Reviews, moderation, home), the          *)
(* mutations the views issue with their onSuccess invalidations, and the   *)
(* session life cycle (sign-in prefetch, logout with cache clear, expiry). *)
(*                                                                         *)
(* Strings the code cuts and joins (work keys, link paths) are sequences   *)
(* of tokens, "/" being a token of its own, so that replace / startsWith / *)
(* route matching are computed, not assumed.  Cache keys are the tuples    *)
(* the code passes as queryKey.  One page is mounted at a time (one        *)
(* <Routes> outlet), so the active queries are those of the current page.  *)
(***************************************************************************)
EXTENDS Integers, Sequences, FiniteSets, TLC

VARIABLES
  session,     \* user of the current session ("none": signed out)
  page,        \* the mounted route, as a tuple: <<"library", tab, sortBy, sortOrder>>, ...
  cache,       \* the QueryClient's query cache: key -> entry
  net,         \* GET requests on the wire (their responses not yet delivered)
  nid,         \* id the next GET request gets (issuance order)
  srv,         \* server state history; srv[v + 1] is the state at version v
  mut,         \* mutation requests on the wire
  mid,         \* id the next mutation gets
  signingOut,  \* a signOut() call is awaiting its response
  last,        \* the event the last step handled
  quota,       \* [req, mut]: how many GETs and mutations the behaviour may issue
  toast,       \* the message the Toaster shows ("none": nothing shown)
  revealedSpoilers,  \* BookDetailPage state: the reviews whose spoilers are revealed
  isLoading    \* useSession().isPending: the session is not resolved yet

vars == <<session, page, cache, net, nid, srv, mut, mid, signingOut, last, quota, toast,
          revealedSpoilers, isLoading>>

---------------------------------------------------------------------------
(* Bounds *)

MaxReq == 3   \* GET requests issued in one behaviour
MaxMut == 1   \* mutation requests issued in one behaviour
MaxCount == 2 \* the largest reviewCount a book response carries
MaxTotal == 40 \* the largest rating total of a breakdown

---------------------------------------------------------------------------
(* Strings as token sequences *)

Slash == "/"

\* s.startsWith(p)
StartsWith(s, p) == Len(s) >= Len(p) /\ SubSeq(s, 1, Len(p)) = p

\* s.slice(n)
Slice(s, n) == SubSeq(s, n + 1, Len(s))

\* positions at which p occurs in s
Occurrences(s, p) ==
  {i \in 1..(Len(s) - Len(p) + 1) : SubSeq(s, i, i + Len(p) - 1) = p}

\* s.replace(p, '') with a string pattern: the first occurrence only
ReplaceFirst(s, p) ==
  IF Occurrences(s, p) = {} THEN s
  ELSE LET i == CHOOSE j \in Occurrences(s, p) : \A l \in Occurrences(s, p) : j <= l
       IN  SubSeq(s, 1, i - 1) \o SubSeq(s, i + Len(p), Len(s))

\* s.replace(/^\//, '')
StripLeadingSlash(s) == IF StartsWith(s, <<Slash>>) THEN Slice(s, 1) ELSE s

WorksPrefix == <<Slash, "works", Slash>>

\* workKey.replace('/works/', '').replace(/^\//, '')
NormalizedKey(workKey) == StripLeadingSlash(ReplaceFirst(workKey, WorksPrefix))

\* the work keys the server hands out (LibraryItem.workKey, Review.workKey)
WorkKeys == { <<Slash, "works", Slash, "OL1W">> }

NoIsbn == <<>>
Isbns == { NoIsbn, <<"9780">> }

\* `/book${workKey}`: book cards, library items, reviews, author works
BookCardLink(workKey) == <<Slash, "book">> \o workKey

\* `/book/${normalizedKey}`: trending and best-seller cards
TrendingLink(workKey) == <<Slash, "book", Slash>> \o NormalizedKey(workKey)

\* <Route path="book/*">: the splat is what follows "/book/"
RouteSplat(path) == Slice(path, 3)

\* the values useParams()['*'] takes on the book route
BookRouteParams ==
  { RouteSplat(BookCardLink(w)) : w \in WorkKeys } \cup
  { RouteSplat(TrendingLink(w)) : w \in WorkKeys }

\* the route params under which the book detail view shows work w
KeyFormsOf(w) == { RouteSplat(BookCardLink(w)), RouteSplat(TrendingLink(w)) }

---------------------------------------------------------------------------
(* Users *)

Users == {"alice", "bob"}
NoUser == "none"
Role(u) == IF u = "bob" THEN "admin" ELSE "user"
isAuthenticated == session # NoUser
isAdmin == isAuthenticated /\ Role(session) = "admin"

---------------------------------------------------------------------------
(* Cache keys and pages *)

LibTabs == {"all", "reading"}
SortBys == {"createdAt"}
SortOrders == {"desc", "asc"}
AdminTabs == {"pending", "approved"}

LibraryKeys == { <<"library", t, b, o>> : t \in LibTabs, b \in SortBys, o \in SortOrders }
BookKeys == { <<"book", p, i>> : p \in BookRouteParams, i \in Isbns }
UserReviewsKey == <<"userReviews">>
AdminStatsKey == <<"adminStats">>
AdminReviewKeys == { <<"adminReviews", t>> : t \in AdminTabs }
TrendingKey == <<"trending", "daily">>

Keys == LibraryKeys \cup BookKeys \cup {UserReviewsKey, AdminStatsKey}
          \cup AdminReviewKeys \cup {TrendingKey}

\* the sign-in prefetch with the title sort
PrefetchKeyByTitle == <<"library", "all", "title", "desc">>

\* the key the sign-in prefetch warms
DefaultLibraryKey == <<"library", "all", "createdAt", "desc">>

\* LibraryPage's first render: useState('all'), useState('createdAt'),
\* useState('desc') in its queryKey
LibraryInitialKey == <<"library", "all", "createdAt", "desc">>

\* the parameters LibraryPage's queryFn passes to api.getLibrary for a key
LibraryParams(k) ==
  [status |-> IF k[2] = "all" THEN "undefined" ELSE k[2],
   sortBy |-> k[3], sortOrder |-> k[4], limit |-> "100"]

\* the parameters of the prefetch's queryFn
PrefetchParams ==
  [status |-> "undefined", sortBy |-> "createdAt", sortOrder |-> "desc", limit |-> "100"]

\* api.getLibrary: the search parameters of the request, the undefined ones left
\* out
getLibrary(params) ==
  SelectSeq(<< <<"status", params.status>>, <<"limit", params.limit>>,
               <<"sortBy", params.sortBy>>, <<"sortOrder", params.sortOrder>> >>,
            LAMBDA q : q[2] # "undefined")

HomePage == <<"home">>
LoginPage == <<"login">>
ReviewsPage == <<"reviews">>
SettingsPage == <<"settings">>
\* a library page is its query key <<"library", tab, sortBy, sortOrder>>, a book
\* page its query key <<"book", workKey, isbn>>, an admin page <<"admin", tab>>

\* the queries a mounted page observes
ObservedKeys(p) ==
  CASE p[1] = "library" -> {p}
    [] p[1] = "book"    -> {p}
    [] p[1] = "reviews" -> {UserReviewsKey}
    [] p[1] = "admin"   -> {AdminStatsKey, <<"adminReviews", p[2]>>}
    [] p[1] = "home"    -> {TrendingKey}
    [] OTHER            -> {}

\* partialMatchKey: the filter key is a prefix of the query key
RECURSIVE PrefixFrom(_, _, _)
PrefixFrom(key, prefix, i) ==
  IF i > Len(prefix) THEN TRUE
  ELSE IF i > Len(key) THEN FALSE
  ELSE IF key[i] # prefix[i] THEN FALSE
  ELSE PrefixFrom(key, prefix, i + 1)

MatchesKey(key, prefix) == PrefixFrom(key, prefix, 1)

\* whether the endpoint behind a key needs a session (and which role)
NeedsSession(k) == k[1] \in {"library", "userReviews", "adminStats", "adminReviews"}
NeedsAdmin(k) == k[1] \in {"adminStats", "adminReviews"}

---------------------------------------------------------------------------
(* The server (system of record), as far as the client's requests see it *)

\* a user's shelf entry for the work is "absent" or a LibraryStatus; a user's
\* review of it is "none" or a ReviewStatus

\* the states the server can be in when the client starts
\* RatingBreakdown: a count per star bucket
Stars == 1..5
NoBreakdown == [s \in Stars |-> 0]

\* openLibraryRatings: null (a record marked null), or average, count and
\* breakdown
NoOpenLibraryRatings ==
  [null |-> TRUE, average |-> "", count |-> 0, breakdown |-> NoBreakdown]

\* the rating part of a book response: averageRating (string | null),
\* reviewCount, reprintBreakdown, openLibraryRatings
Unrated == [averageRating |-> "null", reviewCount |-> 0,
            reprintBreakdown |-> NoBreakdown,
            openLibraryRatings |-> NoOpenLibraryRatings]

InitServerStates ==
  { [shelf  |-> [u \in Users |-> "absent"],
     review |-> [u \in Users |-> "none"],
     rating |-> Unrated],
    [shelf  |-> [u \in Users |-> IF u = "alice" THEN "reading" ELSE "absent"],
     review |-> [u \in Users |-> IF u = "alice" THEN "pending" ELSE "none"],
     rating |-> Unrated] }

srvVer == Len(srv) - 1
srvNow == srv[Len(srv)]

NoMut == [id |-> 0, view |-> "none", kind |-> "none", wk |-> <<>>, user |-> NoUser,
          status |-> "none", target |-> NoUser, applied |-> FALSE, ver |-> 0,
          mounted |-> FALSE]

\* whether the server accepts mutation m in state s
CanApply(s, m) ==
  CASE m.kind = "addToLibrary"      -> s.shelf[m.target] = "absent"
    [] m.kind = "updateLibraryItem" -> s.shelf[m.target] # "absent"
    [] m.kind = "removeFromLibrary" -> s.shelf[m.target] # "absent"
    [] m.kind = "createReview"      -> s.review[m.target] = "none"
    [] m.kind = "updateReview"      -> s.review[m.target] # "none"
    [] m.kind = "deleteReview"      -> s.review[m.target] # "none"
    [] m.kind = "approveReview"     -> s.review[m.target] = "pending"
    [] m.kind = "rejectReview"      -> s.review[m.target] = "pending"
    [] m.kind = "updateUser"        -> TRUE
    [] OTHER                        -> FALSE

\* the server state after mutation m
Applied(s, m) ==
  CASE m.kind = "addToLibrary"      -> [s EXCEPT !.shelf[m.target] = m.status]
    [] m.kind = "updateLibraryItem" -> [s EXCEPT !.shelf[m.target] = m.status]
    [] m.kind = "removeFromLibrary" -> [s EXCEPT !.shelf[m.target] = "absent"]
    [] m.kind = "createReview"      -> [s EXCEPT !.review[m.target] = "pending"]
    [] m.kind = "updateReview"      -> [s EXCEPT !.review[m.target] = "pending"]
    [] m.kind = "deleteReview"      -> [s EXCEPT !.review[m.target] = "none"]
    [] m.kind = "approveReview"     -> [s EXCEPT !.review[m.target] = "approved"]
    [] m.kind = "rejectReview"      -> [s EXCEPT !.review[m.target] = "rejected"]
    [] OTHER                        -> s

---------------------------------------------------------------------------
(* The query cache *)

NoData == -1

\* a query as QueryCache.build creates it.  data: the server version the cached
\* result shows; owner: the session it was fetched under; dataId: the request
\* that brought it; st: fresh / expired (older than staleTime) / invalid
\* (isInvalidated); err: status 'error'; req: the current fetch's request (0:
\* idle); fails: fetchFailureCount.  calls, failed and mustSee are bookkeeping:
\* network calls and failed attempts for the key since the last mutation,
\* expiry or clear, and the version of the last successful mutation whose
\* handler invalidated the entry.
NewQuery == [data |-> NoData, owner |-> NoUser, dataId |-> 0, st |-> "fresh",
             err |-> FALSE, req |-> 0, fails |-> 0,
             calls |-> 0, failed |-> 0, mustSee |-> 0]

\* retry: 1
Retry == 1

\* the oldest server version a GET sent now can be answered from, ms being the
\* mutations still unanswered: requests on the wire are served in any order, so
\* a mutation not yet answered may be carried out after the GET
OldestVisible(ms) ==
  IF \E m \in ms : m.applied
    THEN (CHOOSE v \in {m.ver : m \in {x \in ms : x.applied}} :
            \A m \in ms : m.applied => v <= m.ver) - 1
    ELSE srvVer

\* the client state the handlers work on; lo is the oldest server version a GET
\* sent by the handler can be answered from
World == [cache |-> cache, net |-> net, nid |-> nid, lo |-> OldestVisible(mut)]

Cached(c, k) == k \in DOMAIN c

Put(c, k, e) == [x \in DOMAIN c \cup {k} |-> IF x = k THEN e ELSE c[x]]

\* no data, invalidated, or older than staleTime
isStale(e) == e.data = NoData \/ e.st # "fresh"

\* the queryFn runs: ApiClient.request sends one GET with the session cookie
RunQueryFn(w, k, u) ==
  [w EXCEPT !.cache[k].req = w.nid,
            !.cache[k].calls = @ + 1,
            !.net = @ \cup {[id |-> w.nid, key |-> k, user |-> u, lo |-> w.lo]},
            !.nid = @ + 1]

\* a fetch starts: the failure count restarts; without data the status is pending
StartFetch(w, k, u) ==
  RunQueryFn([w EXCEPT !.cache[k].fails = 0,
                       !.cache[k].err = IF w.cache[k].data = NoData THEN FALSE ELSE @],
             k, u)

\* a fetch that never joins the one in flight
FetchAgain(w, k, u) == StartFetch(w, k, u)

\* query.fetch(): a fetch in flight is joined, not duplicated
Fetch(w, k, u) == IF w.cache[k].req # 0 THEN w ELSE StartFetch(w, k, u)

\* query.fetch(_, {cancelRefetch: true}): a refetch in flight over existing data is
\* cancelled and replaced; an initial fetch in flight is kept
Refetch(w, k, u) ==
  IF w.cache[k].req # 0 /\ w.cache[k].data = NoData THEN w ELSE StartFetch(w, k, u)

Build(w, k) == IF Cached(w.cache, k) THEN w ELSE [w EXCEPT !.cache = Put(@, k, NewQuery)]

\* useQuery({queryKey: k}) mounting: fetch when there is no data or it is stale
Mount(w, k, u) ==
  LET b == Build(w, k) IN IF isStale(b.cache[k]) THEN Fetch(b, k, u) ELSE b

RECURSIVE MountAll(_, _, _)
MountAll(w, ks, u) ==
  IF ks = {} THEN w
  ELSE LET k == CHOOSE x \in ks : TRUE IN MountAll(Mount(w, k, u), ks \ {k}, u)

\* queryClient.prefetchQuery({queryKey: k}): fetch unless fresh data is cached
prefetchQuery(w, k, u) ==
  LET b == Build(w, k) IN IF isStale(b.cache[k]) THEN Fetch(b, k, u) ELSE b

InvalidateOne(w, k, active, u) ==
  LET m == [w EXCEPT !.cache[k].st = "invalid"]
  IN  IF k \in active THEN Refetch(m, k, u) ELSE m

RECURSIVE InvalidateAll(_, _, _, _)
InvalidateAll(w, ks, active, u) ==
  IF ks = {} THEN w
  ELSE LET k == CHOOSE x \in ks : TRUE
       IN  InvalidateAll(InvalidateOne(w, k, active, u), ks \ {k}, active, u)

\* queryClient.invalidateQueries({queryKey: prefix}): every cached query the
\* prefix matches is marked invalid; those a mounted view observes are refetched
invalidateQueries(w, prefix, u) ==
  InvalidateAll(w, {k \in DOMAIN w.cache : MatchesKey(k, prefix)},
                ObservedKeys(page), u)

EmptyCache == [k \in {} |-> NewQuery]

\* queryClient.clear(): every query is removed
clear(w) == [w EXCEPT !.cache = EmptyCache]

\* any response for a cached key is taken
AcceptsAny(c, r) == Cached(c, r.key)

\* a response is taken only by the fetch that is still the query's current one
Accepts(c, r) == Cached(c, r.key) /\ c[r.key].req = r.id

\* what the view renders from an entry: its data, also while a refetch runs
Content(e) == srv[e.data + 1]
libraryItem(e) == IF e.data = NoData \/ e.owner = NoUser THEN "absent"
                  ELSE Content(e).shelf[e.owner]
userReview(e) == IF e.data = NoData \/ e.owner = NoUser THEN "none"
                 ELSE Content(e).review[e.owner]

\* the view has data to render for key k
HasData(k) == Cached(cache, k) /\ cache[k].data # NoData

NoEvent == [ev |-> "init", key |-> <<>>, m |-> NoMut, prev |-> NoData]
Event(ev, k, m, prev) == [ev |-> ev, key |-> k, m |-> m, prev |-> prev]

---------------------------------------------------------------------------
InitFrom(q, S) ==
  /\ quota = q
  /\ session = NoUser
  /\ page = HomePage
  /\ cache = EmptyCache
  /\ net = {}
  /\ nid = 1
  /\ srv \in { <<s>> : s \in S }
  /\ mut = {}
  /\ mid = 1
  /\ signingOut = FALSE
  /\ last = NoEvent
  /\ toast = "none"
  /\ revealedSpoilers = {}
  /\ isLoading = FALSE

\* the application has just been loaded: useSession is pending
InitLoading(q, S) ==
  /\ quota = q
  /\ session = NoUser
  /\ page = HomePage
  /\ cache = EmptyCache
  /\ net = {}
  /\ nid = 1
  /\ srv \in { <<s>> : s \in S }
  /\ mut = {}
  /\ mid = 1
  /\ signingOut = FALSE
  /\ last = NoEvent
  /\ toast = "none"
  /\ revealedSpoilers = {}
  /\ isLoading = TRUE

InitWith(q) == InitFrom(q, InitServerStates)

\* the cache part of the next state is w
Becomes(w) ==
  /\ w.nid <= quota.req + 1
  /\ cache' = w.cache
  /\ net' = w.net
  /\ nid' = w.nid

---------------------------------------------------------------------------
(* Navigation and reads *)

\* ProtectedRoute: library, reviews need a session; admin needs the admin role
CanVisit(p) ==
  CASE p[1] \in {"library", "reviews", "settings"} -> isAuthenticated
    [] p[1] = "admin"                  -> isAdmin
    [] OTHER                           -> TRUE

\* the placeholder ProtectedRoute renders under route p while the session loads
Skeleton(p) == <<"skeleton">> \o p

\* a ProtectedRoute that does not look at the role
ProtectedRouteAnyRole(children, requireAdmin, loading, u) ==
  IF loading THEN Skeleton(children)
  ELSE IF u = NoUser THEN LoginPage
  ELSE children

\* ProtectedRoute({children, requireAdmin}) under useAuth() = {isLoading,
\* isAuthenticated, isAdmin} of user u: what the route shows
ProtectedRoute(children, requireAdmin, loading, u) ==
  IF loading THEN Skeleton(children)
  ELSE IF u = NoUser THEN LoginPage
  ELSE IF requireAdmin /\ Role(u) # "admin" THEN HomePage
  ELSE children

\* App: the routes wrapped in ProtectedRoute, admin with requireAdmin
Protected(p) == p[1] \in {"library", "reviews", "settings", "admin"}

RouteElement(p, loading, u) ==
  IF Protected(p) THEN ProtectedRoute(p, p[1] = "admin", loading, u) ELSE p

\* the component state of the page once the route shows p: the book routes share
\* one BookDetailPage, any other change of route mounts a new component
StateOn(p) == IF p[1] = "book" /\ page[1] = "book" THEN revealedSpoilers ELSE {}

\* the mutations in flight once the route shows p: a page that stays mounted (the
\* route element is the same) keeps its useMutation observers; a page that
\* unmounts leaves its requests running with their handlers, and the next mount
\* starts with observers that are idle
Observed(p) ==
  IF p[1] = page[1] THEN mut ELSE {[m EXCEPT !.mounted = FALSE] : m \in mut}

\* the location becomes route p in any session state (a link, the address bar):
\* the route's element decides what is shown
OpenRoute(p) ==
  LET q == RouteElement(p, isLoading, session) IN
  /\ page' = q
  /\ Becomes(MountAll(World, ObservedKeys(q), session))
  /\ last' = Event("route", p, NoMut, NoData)
  /\ revealedSpoilers' = StateOn(q)
  /\ mut' = Observed(q)
  /\ UNCHANGED <<isLoading, session, srv, mid, signingOut, quota, toast>>

\* the route mounts page p (or the window regains focus on it): its queries are read
Navigate(p) ==
  /\ CanVisit(p)
  /\ page' = p
  /\ Becomes(MountAll(World, ObservedKeys(p), session))
  /\ last' = Event("navigate", <<>>, NoMut, NoData)
  /\ revealedSpoilers' = StateOn(p)
  /\ mut' = Observed(p)
  /\ UNCHANGED <<isLoading, session, srv, mid, signingOut, quota, toast>>

\* the data of a successful response lands in the query
OnFetchSuccess(e, r, v) ==
  [e EXCEPT !.data = v, !.owner = r.user, !.dataId = r.id, !.st = "fresh",
            !.err = FALSE, !.req = 0, !.fails = 0]

\* response.ok: the server answered request r from its state at version v
FetchSuccess(r, v) ==
  /\ r \in net
  /\ v \in r.lo..srvVer
  /\ NeedsSession(r.key) => r.user # NoUser
  /\ NeedsAdmin(r.key) => Role(r.user) = "admin"
  /\ Accepts(cache, r)
  /\ cache' = [cache EXCEPT ![r.key] = OnFetchSuccess(@, r, v)]
  /\ net' = net \ {r}
  /\ last' = Event("fetchOK", r.key, NoMut, cache[r.key].data)
  /\ UNCHANGED <<isLoading, session, page, nid, srv, mut, mid, signingOut, quota, toast, revealedSpoilers>>

\* the response of a cancelled fetch, or of a query that was removed, is ignored
DropResponse(r) ==
  /\ r \in net
  /\ ~Accepts(cache, r)
  /\ net' = net \ {r}
  /\ last' = Event("dropped", r.key, NoMut, NoData)
  /\ UNCHANGED <<isLoading, session, page, cache, nid, srv, mut, mid, signingOut, quota, toast, revealedSpoilers>>

\* a retryer that gives up at the first failure
OnFetchErrorGiveUp(w, r, u) ==
  [w EXCEPT !.net = @ \ {r},
            !.cache[r.key].fails = @ + 1, !.cache[r.key].failed = @ + 1,
            !.cache[r.key].err = TRUE, !.cache[r.key].req = 0]

\* ApiClient.request threw (non-OK response or network error): the retryer runs
\* the queryFn once more, then gives up and the query is in error
OnFetchError(w, r, u) ==
  LET k == r.key
      e == w.cache[k]
      gone == [w EXCEPT !.net = @ \ {r}]
  IN  IF e.fails < Retry
        THEN RunQueryFn([gone EXCEPT !.cache[k].fails = @ + 1,
                                     !.cache[k].failed = @ + 1], k, u)
        ELSE [gone EXCEPT !.cache[k].fails = @ + 1, !.cache[k].failed = @ + 1,
                          !.cache[k].err = TRUE, !.cache[k].req = 0]

FetchFail(r) ==
  /\ r \in net
  /\ Accepts(cache, r)
  /\ Becomes(OnFetchError(World, r, session))
  /\ last' = Event(IF cache[r.key].fails < Retry THEN "attemptFailed" ELSE "fetchFailed",
                   r.key, NoMut, cache[r.key].data)
  /\ UNCHANGED <<isLoading, session, page, srv, mut, mid, signingOut, quota, toast, revealedSpoilers>>

\* staleTime elapses for a cached result
Expire(k) ==
  /\ HasData(k) /\ cache[k].st = "fresh"
  /\ cache' = [cache EXCEPT ![k].st = "expired", ![k].calls = 0, ![k].failed = 0]
  /\ last' = Event("expired", k, NoMut, NoData)
  /\ UNCHANGED <<isLoading, session, page, net, nid, srv, mut, mid, signingOut, quota, toast, revealedSpoilers>>

---------------------------------------------------------------------------
(* Mutations *)

LibraryKinds == {"addToLibrary", "updateLibraryItem", "removeFromLibrary"}
ReviewKinds == {"createReview", "updateReview", "deleteReview"}
ModerationKinds == {"approveReview", "rejectReview"}

\* whether the server carries mutation m out: the session's user may change only
\* rows of their own, and only a moderator may approve or reject
Authorized(m) ==
  /\ m.user # NoUser
  /\ m.kind \in ModerationKinds => Role(m.user) = "admin"
  /\ m.kind \notin ModerationKinds => m.target = m.user

\* the mutations whose isPending a control of their view reads: the library
\* card's Select, the review form's submit buttons, the moderation buttons, the
\* settings form
ReadsPending(view, kind) ==
  \/ view = "library" /\ kind = "updateLibraryItem"
  \/ view = "book" /\ kind \in {"createReview", "updateReview"}
  \/ view = "admin" /\ kind \in ModerationKinds
  \/ view = "settings"

\* mounted: a control of the view that sent the mutation, still mounted, reads
\* its isPending
Mutation(view, kind, wk, status, target) ==
  [id |-> mid, view |-> view, kind |-> kind, wk |-> wk, user |-> session,
   status |-> status, target |-> target, applied |-> FALSE, ver |-> 0,
   mounted |-> ReadsPending(view, kind)]

\* useMutation(...).mutate(): the request goes out; the server carries it out and
\* answers, or rejects it, or the network fails (either way the response is
\* delivered later, by MutSuccess or MutFail)
Mutate(m) ==
  /\ mid <= quota.mut
  /\ mid' = mid + 1
  /\ \/ /\ Authorized(m) /\ CanApply(srvNow, m)
        /\ srv' = Append(srv, Applied(srvNow, m))
        /\ mut' = mut \cup {[m EXCEPT !.applied = TRUE, !.ver = srvVer + 1]}
     \/ /\ srv' = srv
        /\ mut' = mut \cup {m}
  /\ last' = Event("mutate", <<>>, NoMut, NoData)
  /\ UNCHANGED <<isLoading, session, page, cache, net, nid, signingOut, quota, toast, revealedSpoilers>>

\* BookDetailPage renders its actions once the book query has data and no error
BookRendered == page[1] = "book" /\ HasData(page) /\ ~cache[page].err

\* BookDetailPage: libraryItem ? (status dropdown, Remove) : (add dropdown)
BookAddToLibrary(status) ==
  /\ BookRendered /\ isAuthenticated
  /\ libraryItem(cache[page]) = "absent"
  /\ Mutate(Mutation("book", "addToLibrary", page[2], status, session))

\* a status menu whose items add the book again
BookUpdateLibraryByAdd(status) ==
  /\ BookRendered /\ isAuthenticated
  /\ libraryItem(cache[page]) # "absent"
  /\ Mutate(Mutation("book", "addToLibrary", page[2], status, session))

BookUpdateLibrary(status) ==
  /\ BookRendered /\ isAuthenticated
  /\ libraryItem(cache[page]) # "absent"
  /\ Mutate(Mutation("book", "updateLibraryItem", page[2], status, cache[page].owner))

BookRemoveFromLibrary ==
  /\ BookRendered /\ isAuthenticated
  /\ libraryItem(cache[page]) # "absent"
  /\ Mutate(Mutation("book", "removeFromLibrary", page[2], "none", cache[page].owner))

\* useMutation(...).isPending of the view's mutation of that kind
isPending(view, kind) == \E m \in mut : m.mounted /\ m.view = view /\ m.kind = kind

\* BookDetailPage review form: Post Review without userReview, Save Changes /
\* Delete with one
BookCreateReview ==
  /\ BookRendered /\ isAuthenticated
  /\ userReview(cache[page]) = "none"
  /\ ~isPending("book", "createReview")
  /\ Mutate(Mutation("book", "createReview", page[2], "none", session))

BookUpdateReview ==
  /\ BookRendered /\ isAuthenticated
  /\ userReview(cache[page]) # "none"
  /\ ~isPending("book", "updateReview")
  /\ Mutate(Mutation("book", "updateReview", page[2], "none", cache[page].owner))

BookDeleteReview ==
  /\ BookRendered
  /\ userReview(cache[page]) # "none"
  /\ Mutate(Mutation("book", "deleteReview", page[2], "none", cache[page].owner))

\* LibraryPage lists the items of the tab from its query's data
LibraryLists(w) ==
  /\ page[1] = "library" /\ HasData(page)
  /\ libraryItem(cache[page]) # "absent"
  /\ page[2] \in {"all", libraryItem(cache[page])}
  /\ w \in WorkKeys

isUpdating == isPending("library", "updateLibraryItem")

\* LibraryItemCard Select (disabled while an update is pending) and Remove
LibraryUpdate(w, status) ==
  /\ LibraryLists(w) /\ ~isUpdating
  /\ Mutate(Mutation("library", "updateLibraryItem", w, status, cache[page].owner))

LibraryRemove(w) ==
  /\ LibraryLists(w)
  /\ Mutate(Mutation("library", "removeFromLibrary", w, "none", cache[page].owner))

\* ReviewsPage: Delete on a listed review
ReviewsDelete(w) ==
  /\ page = ReviewsPage /\ HasData(UserReviewsKey)
  /\ userReview(cache[UserReviewsKey]) # "none"
  /\ w \in WorkKeys
  /\ Mutate(Mutation("reviews", "deleteReview", w, "none", cache[UserReviewsKey].owner))

isModerating == isPending("admin", "approveReview") \/ isPending("admin", "rejectReview")

\* cards whose buttons are never disabled
AdminActionAlways(kind, w, u) ==
  /\ page[1] = "admin" /\ page[2] = "pending"
  /\ HasData(<<"adminReviews", page[2]>>)
  /\ Content(cache[<<"adminReviews", page[2]>>]).review[u] = page[2]
  /\ w \in WorkKeys
  /\ Mutate(Mutation("admin", kind, w, "none", u))

\* AdminPage: Approve / Reject on a review listed under the pending tab
AdminAction(kind, w, u) ==
  /\ page[1] = "admin" /\ page[2] = "pending"
  /\ HasData(<<"adminReviews", page[2]>>)
  /\ Content(cache[<<"adminReviews", page[2]>>]).review[u] = page[2]
  /\ ~isModerating
  /\ w \in WorkKeys
  /\ Mutate(Mutation("admin", kind, w, "none", u))

\* a handler that invalidates the book entry alone
InvalidationPrefixesBookOnly(m) == << <<"book", m.wk>> >>

\* the prefixes mutation m's onSuccess handler passes to invalidateQueries, in order
InvalidationPrefixes(m) ==
  CASE m.view = "book" /\ m.kind \in LibraryKinds -> << <<"book", m.wk>>, <<"library">> >>
    [] m.view = "book" /\ m.kind \in ReviewKinds  -> << <<"book", m.wk>> >>
    [] m.view = "library" -> << <<"library">>, <<"book", NormalizedKey(m.wk)>> >>
    [] m.view = "reviews" -> << <<"userReviews">> >>
    [] m.view = "admin"   -> << <<"adminReviews">>, <<"adminStats">> >>
    [] OTHER              -> << >>

RECURSIVE InvalidateEach(_, _, _)
InvalidateEach(w, prefixes, u) ==
  IF prefixes = << >> THEN w
  ELSE InvalidateEach(invalidateQueries(w, Head(prefixes), u), Tail(prefixes), u)

\* a handler that also writes the mutation's result into the entries it
\* invalidates
OnSuccessPatch(w, m, u) ==
  LET v == InvalidateEach(w, InvalidationPrefixes(m), u)
  IN  [v EXCEPT !.cache = [k \in DOMAIN v.cache |->
                             IF v.cache[k].st = "invalid" /\ v.cache[k].data # NoData
                               THEN [v.cache[k] EXCEPT !.data = m.ver]
                               ELSE v.cache[k]]]

\* the onSuccess handler of mutation m
OnSuccess(w, m, u) == InvalidateEach(w, InvalidationPrefixes(m), u)

InvalidationSet(m) ==
  {k \in Keys : \E i \in 1..Len(InvalidationPrefixes(m)) :
                   MatchesKey(k, InvalidationPrefixes(m)[i])}

\* SettingsPage ProfileSection.onSubmit: authClient.updateUser is awaited in a
\* try / catch that toasts either way
SettingsUpdateProfile ==
  /\ page = SettingsPage /\ isAuthenticated
  /\ ~\E m \in mut : m.mounted /\ m.view = "settings"
  /\ Mutate(Mutation("settings", "updateUser", <<>>, "none", session))

\* what the Toaster shows once mutation m has succeeded / failed: only the
\* settings forms toast; the useMutation calls of the book, library, reviews and
\* admin views have no onError and their views render no mutation error
ToastOnSuccess(m) == IF m.view = "settings" THEN "success" ELSE toast
ToastOnError(m) == IF m.view = "settings" THEN "error" ELSE toast

\* bookkeeping: a mutation succeeded
NewPeriod(c, m) ==
  [k \in DOMAIN c |->
     [c[k] EXCEPT !.calls = 0, !.failed = 0,
                  !.mustSee = IF k \in InvalidationSet(m) THEN m.ver ELSE @]]

\* the mutation's response arrives and its onSuccess handler runs to the end
MutSuccess(m) ==
  /\ m \in mut /\ m.applied
  /\ mut' = mut \ {m}
  /\ Becomes(OnSuccess([World EXCEPT !.cache = NewPeriod(cache, m),
                                     !.lo = OldestVisible(mut \ {m})], m, session))
  /\ last' = Event("mutOK", <<>>, m, NoData)
  /\ toast' = ToastOnSuccess(m)
  /\ UNCHANGED <<isLoading, session, page, srv, mid, signingOut, quota, revealedSpoilers>>

\* a failure that runs the invalidations all the same (an onSettled handler)
MutFailSettled(m) ==
  /\ m \in mut /\ ~m.applied
  /\ mut' = mut \ {m}
  /\ Becomes(OnSuccess(World, m, session))
  /\ last' = Event("mutFailed", <<>>, m, NoData)
  /\ toast' = ToastOnError(m)
  /\ UNCHANGED <<isLoading, session, page, srv, mid, signingOut, quota, revealedSpoilers>>

\* the mutation's request fails (rejected by the server, or the network fails):
\* no handler runs
MutFail(m) ==
  /\ m \in mut /\ ~m.applied
  /\ mut' = mut \ {m}
  /\ last' = Event("mutFailed", <<>>, m, NoData)
  /\ toast' = ToastOnError(m)
  /\ UNCHANGED <<isLoading, session, page, cache, net, nid, srv, mid, signingOut, quota, revealedSpoilers>>

---------------------------------------------------------------------------
(* Session *)

\* ProtectedRoute sends a page that needs a session to /login once there is none
AfterSessionEnd(p) ==
  IF p[1] \in {"library", "reviews", "settings", "admin"} THEN LoginPage ELSE p

\* AuthProvider.login succeeds; the effect on isAuthenticated prefetches the
\* default library view
Login(u) ==
  /\ page = LoginPage /\ session = NoUser /\ ~signingOut
  /\ session' = u
  /\ Becomes(prefetchQuery(World, DefaultLibraryKey, u))
  /\ last' = Event("login", <<>>, NoMut, NoData)
  /\ UNCHANGED <<isLoading, page, srv, mut, mid, signingOut, quota, toast, revealedSpoilers>>

\* useSession resolves to user u (NoUser: no session): isLoading turns false, a
\* ProtectedRoute showing the placeholder renders again, and the effect on
\* isAuthenticated prefetches the default library view
SessionResolved(u) ==
  LET route == IF page[1] = "skeleton" THEN Tail(page) ELSE page
      q == RouteElement(route, FALSE, u)
      w == IF u = NoUser THEN World ELSE prefetchQuery(World, DefaultLibraryKey, u)
  IN
  /\ isLoading /\ session \in {NoUser, u}
  /\ isLoading' = FALSE
  /\ session' = u
  /\ page' = q
  /\ Becomes(MountAll(w, ObservedKeys(q), u))
  /\ last' = Event("resolved", route, NoMut, NoData)
  /\ revealedSpoilers' = StateOn(q)
  /\ mut' = Observed(q)
  /\ UNCHANGED <<srv, mid, signingOut, quota, toast>>

\* Layout.handleLogout: logout() is called, not awaited, and the route goes to '/'
HandleLogout ==
  /\ isAuthenticated /\ ~signingOut
  /\ signingOut' = TRUE
  /\ page' = HomePage
  /\ Becomes(MountAll(World, ObservedKeys(HomePage), session))
  /\ last' = Event("logoutCalled", <<>>, NoMut, NoData)
  /\ revealedSpoilers' = StateOn(HomePage)
  /\ mut' = Observed(HomePage)
  /\ UNCHANGED <<isLoading, session, srv, mid, quota, toast>>

\* a logout that leaves the cache as it is
AfterSignOutKeep(w) == w

\* AuthProvider.logout after `await signOut()`: the cache is cleared
AfterSignOut(w) == clear(w)

LogoutDone ==
  /\ signingOut
  /\ signingOut' = FALSE
  /\ session' = NoUser
  /\ page' = AfterSessionEnd(page)
  /\ Becomes(AfterSignOut(World))
  /\ last' = Event("logoutDone", <<>>, NoMut, NoData)
  /\ revealedSpoilers' = StateOn(AfterSessionEnd(page))
  /\ mut' = Observed(AfterSessionEnd(page))
  /\ UNCHANGED <<isLoading, srv, mid, quota, toast>>

\* the server ends the session (expiry): requests answer 401, useSession turns
\* null; nothing touches the cache
SessionExpire ==
  /\ isAuthenticated /\ ~signingOut
  /\ session' = NoUser
  /\ page' = AfterSessionEnd(page)
  /\ last' = Event("sessionExpired", <<>>, NoMut, NoData)
  /\ revealedSpoilers' = StateOn(AfterSessionEnd(page))
  /\ mut' = Observed(AfterSessionEnd(page))
  /\ UNCHANGED <<isLoading, cache, net, nid, srv, mid, signingOut, quota, toast>>

---------------------------------------------------------------------------
(* Review rendering *)

\* Review.hasSpoilers: alice's review is flagged, bob's is not
hasSpoilers(review) == review = "alice"

\* data.data.reviews: the public review list of the book in the response, the
\* approved reviews
reviews(e) == {u \in Users : Content(e).review[u] = "approved"}

\* a ReviewCard with the props the book detail view passes (a review is named by
\* its author: a user has at most one review of a work)
Card(review, status, isOwn, isRevealed) ==
  [review |-> review, status |-> status, isOwn |-> isOwn, isRevealed |-> isRevealed]

\* a "Your Review" card that is not revealed
YourReviewHidden(e) ==
  IF userReview(e) = "none" THEN {}
  ELSE {Card(e.owner, userReview(e), TRUE, FALSE)}

\* "Your Review": userReview && !isEditing, rendered with isRevealed={true}, isOwn
YourReview(e) ==
  IF userReview(e) = "none" THEN {}
  ELSE {Card(e.owner, userReview(e), TRUE, TRUE)}

\* a community list that is not filtered
CommunityCardsAll(rs, e) ==
  {Card(r, Content(e).review[r], FALSE, r \in revealedSpoilers) : r \in rs}

\* reviews.filter((r) => r.userId !== user?.id).map(ReviewCard), rs being the
\* reviews list of the response
CommunityCards(rs, e) ==
  {Card(r, Content(e).review[r], FALSE, r \in revealedSpoilers) :
     r \in {u \in rs : u # session}}

\* "Community Reviews"
CommunityReviews(e) == CommunityCards(reviews(e), e)

\* ReviewsPage: the status badge of the signed-in user's review in the list of
\* ['userReviews']
MyReviewStatus == Content(cache[UserReviewsKey]).review[session]

\* the review cards on screen in the book detail view
BookCards ==
  IF BookRendered THEN YourReview(cache[page]) \cup CommunityReviews(cache[page])
  ELSE {}

\* ReviewCard: showContent = !review.hasSpoilers || isRevealed
showContent(c) == ~hasSpoilers(c.review) \/ c.isRevealed

\* ReviewCard: {isOwn && review.status !== 'approved' && <Badge>{review.status}}
StatusBadge(c) == IF c.isOwn /\ c.status # "approved" THEN c.status ELSE "none"

\* ReviewsPage ReviewCard: the content is always rendered; the status message
\* under the card
MyReviewCard(status) ==
  [status  |-> status,
   content |-> TRUE,
   message |-> CASE status = "pending"  -> "pending approval by a moderator"
                 [] status = "rejected" -> "not approved, may edit and resubmit"
                 [] OTHER               -> "none"]

\* parseFloat of an averageRating string, in tenths
parseFloat(str) ==
  CASE str = "0"   -> 0
    [] str = "0.0" -> 0
    [] str = "4.5" -> 45
    [] OTHER       -> 0

\* a summary that goes by the average alone
RatingSummaryByAverage(d) ==
  IF d.averageRating # "null"
    THEN [stars |-> parseFloat(d.averageRating), text |-> d.averageRating,
          reviews |-> d.reviewCount]
    ELSE [stars |-> 0, text |-> "No reviews yet", reviews |-> 0]

\* a summary that counts the ratings of both sources together
RatingSummaryBlended(d) ==
  IF d.reviewCount > 0
    THEN [stars |-> IF d.averageRating # "null" THEN parseFloat(d.averageRating) ELSE 0,
          text |-> d.averageRating,
          reviews |-> d.reviewCount + d.openLibraryRatings.count]
    ELSE [stars |-> 0, text |-> "No reviews yet", reviews |-> 0]

\* BookDetailPage, "RePrint Rating" of the summary: reviewCount > 0 ? stars,
\* {averageRating} and the count : "No reviews yet"
RatingSummary(d) ==
  IF d.reviewCount > 0
    THEN [stars |-> IF d.averageRating # "null" THEN parseFloat(d.averageRating) ELSE 0,
          text |-> d.averageRating, reviews |-> d.reviewCount]
    ELSE [stars |-> 0, text |-> "No reviews yet", reviews |-> 0]

Pow2(n) == 2^n

\* Numbers are IEEE 754 doubles.  A positive double is [m, e]: a 53-bit
\* significand m, held as four 16-bit limbs (lowest first), and the value
\* m * 2^-(52 + e).  Carry brings the three low limbs back below 2^16.
Carry(l) ==
  LET c1 == l[1] \div Pow2(16)
      c2 == (l[2] + c1) \div Pow2(16)
      c3 == (l[3] + c2) \div Pow2(16)
  IN  << l[1] % Pow2(16), (l[2] + c1) % Pow2(16), (l[3] + c2) % Pow2(16), l[4] + c3 >>

\* the least e with count * 2^e >= total
RECURSIVE Exponent(_, _)
Exponent(count, total) == IF count >= total THEN 0 ELSE 1 + Exponent(2 * count, total)

\* count / total for 0 <= count <= total, total > 0: the quotient's binary
\* expansion by long division, 53 bits kept, rounded to nearest, ties to even
Divide(count, total) ==
  IF count = 0 THEN [m |-> <<0, 0, 0, 0>>, e |-> 0]
  ELSE
    LET e  == Exponent(count, total)
        r0 == count * Pow2(e) - total
        f3 == (r0 * Pow2(4)) \div total
        r1 == (r0 * Pow2(4)) % total
        f2 == (r1 * Pow2(16)) \div total
        r2 == (r1 * Pow2(16)) % total
        f1 == (r2 * Pow2(16)) \div total
        r3 == (r2 * Pow2(16)) % total
        f0 == (r3 * Pow2(16)) \div total
        r4 == (r3 * Pow2(16)) % total
        up == IF 2 * r4 > total \/ (2 * r4 = total /\ f0 % 2 = 1) THEN 1 ELSE 0
    IN  [m |-> Carry(<<f0 + up, f1, f2, Pow2(4) + f3>>), e |-> e]

\* x * 100: the exact product of the significand (59 or 60 bits), rounded back
\* to 53 bits, to nearest, ties to even; the low bits dropped are left zero
Times100(x) ==
  LET P    == Carry(<<x.m[1] * 100, x.m[2] * 100, x.m[3] * 100, x.m[4] * 100>>)
      s    == IF P[4] >= Pow2(11) THEN 7 ELSE 6
      low  == P[1] % Pow2(s)
      half == Pow2(s - 1)
      odd  == (P[1] \div Pow2(s)) % 2 = 1
      up   == IF low > half \/ (low = half /\ odd) THEN Pow2(s) ELSE 0
  IN  [m |-> Carry(<<P[1] - low + up, P[2], P[3], P[4]>>), e |-> x.e]

\* Math.round(x) for 0 <= x < 128: floor(x + 1/2), from the bits of the
\* significand at and above 2^48
MathRound(x) == (x.m[4] + Pow2(3 + x.e)) \div Pow2(4 + x.e)

\* total > 0 ? Math.round((count / total) * 100) : 0
percentage(count, total) ==
  IF total > 0 THEN MathRound(Times100(Divide(count, total))) ELSE 0

\* the bars of a breakdown: per star bucket the count and its percentage
Bars(breakdown, total) ==
  [s \in Stars |-> [count |-> breakdown[s], percentage |-> percentage(breakdown[s], total)]]

\* BookDetailPage, "RePrint Ratings" tab: reviewCount > 0 ? {averageRating},
\* stars, count and the breakdown bars : "No RePrint reviews yet"
RatingsTab(d) ==
  IF d.reviewCount > 0
    THEN [stars |-> IF d.averageRating # "null" THEN parseFloat(d.averageRating) ELSE 0,
          text |-> d.averageRating, reviews |-> d.reviewCount,
          bars |-> Bars(d.reprintBreakdown, d.reviewCount)]
    ELSE [stars |-> 0, text |-> "No RePrint reviews yet", reviews |-> 0]

\* the Open Library figure is shown when openLibraryRatings && count > 0 &&
\* average
HasOpenLibrary(d) ==
  /\ ~d.openLibraryRatings.null
  /\ d.openLibraryRatings.count > 0
  /\ d.openLibraryRatings.average # ""

\* BookDetailPage, "Open Library Rating" of the summary
OpenLibrarySummary(d) ==
  IF HasOpenLibrary(d)
    THEN [stars |-> parseFloat(d.openLibraryRatings.average),
          text |-> d.openLibraryRatings.average, ratings |-> d.openLibraryRatings.count]
    ELSE [stars |-> 0, text |-> "No ratings yet", ratings |-> 0]

\* BookDetailPage, "Open Library" ratings tab
OpenLibraryTab(d) ==
  IF HasOpenLibrary(d)
    THEN [stars |-> parseFloat(d.openLibraryRatings.average),
          text |-> d.openLibraryRatings.average, ratings |-> d.openLibraryRatings.count,
          bars |-> Bars(d.openLibraryRatings.breakdown, d.openLibraryRatings.count)]
    ELSE [stars |-> 0, text |-> "No Open Library ratings yet", ratings |-> 0]

\* ReviewCard: the Show Spoilers / Hide button (review.hasSpoilers && !isOwn)
\* calls toggleSpoiler(review.id)
toggleSpoiler(reviewId) ==
  /\ \E c \in BookCards : c.review = reviewId /\ hasSpoilers(c.review) /\ ~c.isOwn
  /\ revealedSpoilers' = IF reviewId \in revealedSpoilers
                          THEN revealedSpoilers \ {reviewId}
                          ELSE revealedSpoilers \cup {reviewId}
  /\ last' = Event("toggleSpoiler", <<>>, NoMut, NoData)
  /\ UNCHANGED <<isLoading, session, page, cache, net, nid, srv, mut, mid, signingOut, quota, toast>>

---------------------------------------------------------------------------
(* Specifications *)

Init == InitWith([req |-> MaxReq, mut |-> MaxMut])

Versions == 0..MaxMut

Answer == \E r \in net : \E v \in Versions : FetchSuccess(r, v)

DeliverMut ==
  \/ \E m \in mut : MutSuccess(m)
  \/ \E m \in mut : MutFail(m)

\* the book pages of the one work, as the links of the views lead to them
OL1W == CHOOSE w \in WorkKeys : TRUE
BookOL1W == <<"book", RouteSplat(TrendingLink(OL1W)), NoIsbn>>
BookOL1WIsbn == <<"book", RouteSplat(TrendingLink(OL1W)), <<"9780">>>>
BookWorksOL1W == <<"book", RouteSplat(BookCardLink(OL1W)), NoIsbn>>
ReadingTab == <<"library", "reading", "createdAt", "desc">>
ShelfStatuses == {"reading", "read"}

\* the book detail view and its shelf actions, one reader
NextBook ==
  \/ \E p \in {LoginPage, BookOL1W, BookOL1WIsbn} : Navigate(p)
  \/ Login("alice")
  \/ \E st \in ShelfStatuses : BookAddToLibrary(st)
  \/ \E st \in ShelfStatuses : BookUpdateLibrary(st)
  \/ BookRemoveFromLibrary
  \/ Answer
  \/ DeliverMut

SpecBook == Init /\ [][NextBook]_vars

\* the library list view and its shelf actions, with the book detail view
\* reached through both kinds of link
NextLibrary ==
  \/ \E p \in {LoginPage, DefaultLibraryKey, BookOL1W, BookWorksOL1W} : Navigate(p)
  \/ Login("alice")
  \/ \E w \in WorkKeys, st \in ShelfStatuses : LibraryUpdate(w, st)
  \/ \E w \in WorkKeys : LibraryRemove(w)
  \/ Answer
  \/ DeliverMut

SpecLibrary == Init /\ [][NextLibrary]_vars

\* reviews: the book detail view's review form and My Reviews
NextReviews ==
  \/ \E p \in {LoginPage, ReviewsPage, BookWorksOL1W} : Navigate(p)
  \/ Login("alice")
  \/ BookCreateReview
  \/ BookUpdateReview
  \/ BookDeleteReview
  \/ \E w \in WorkKeys : ReviewsDelete(w)
  \/ Answer
  \/ DeliverMut

SpecReviews == Init /\ [][NextReviews]_vars

\* moderation: the admin view's pending tab and the book detail view
NextAdmin ==
  \/ \E p \in {LoginPage, <<"admin", "pending">>, BookWorksOL1W} : Navigate(p)
  \/ Login("bob")
  \/ \E k \in ModerationKinds, w \in WorkKeys : AdminAction(k, w, "alice")
  \/ Answer
  \/ DeliverMut

\* the admin view reads two keys, so this specification allows one more GET
InitAdmin == InitWith([req |-> MaxReq + 1, mut |-> MaxMut])

SpecAdmin == InitAdmin /\ [][NextAdmin]_vars

\* sessions: two users on one client, logout and expiry
NextAuth ==
  \/ \E p \in {LoginPage, DefaultLibraryKey, BookOL1W} : Navigate(p)
  \/ \E u \in Users : Login(u)
  \/ HandleLogout
  \/ LogoutDone
  \/ SessionExpire
  \/ Answer
  \/ \E r \in net : DropResponse(r)

SpecAuth == Init /\ [][NextAuth]_vars

\* the life of a fetch: success, failure and retry, expiry, supersession
NextFetch ==
  \/ \E p \in {LoginPage, DefaultLibraryKey, ReadingTab} : Navigate(p)
  \/ Login("alice")
  \/ \E w \in WorkKeys : LibraryUpdate(w, "read")
  \/ \E r \in net : FetchFail(r)
  \/ \E k \in LibraryKeys : Expire(k)
  \/ Answer
  \/ \E r \in net : DropResponse(r)
  \/ DeliverMut

SpecFetch == Init /\ [][NextFetch]_vars

\* failures of mutations: shelf actions of the book and library views, and the
\* profile form of the settings view
NextErrors ==
  \/ \E p \in {LoginPage, SettingsPage, DefaultLibraryKey, BookOL1W} : Navigate(p)
  \/ Login("alice")
  \/ \E st \in ShelfStatuses : BookAddToLibrary(st)
  \/ \E w \in WorkKeys, st \in ShelfStatuses : LibraryUpdate(w, st)
  \/ SettingsUpdateProfile
  \/ Answer
  \/ DeliverMut

SpecErrors == Init /\ [][NextErrors]_vars

\* repeated actions on one item: the shelf controls of both views and the
\* review form, with room for a second mutation
NextTwice ==
  \/ \E p \in {LoginPage, DefaultLibraryKey, BookOL1W} : Navigate(p)
  \/ Login("alice")
  \/ BookAddToLibrary("reading")
  \/ BookUpdateLibrary("read")
  \/ BookRemoveFromLibrary
  \/ \E w \in WorkKeys : LibraryUpdate(w, "read")
  \/ \E w \in WorkKeys : LibraryRemove(w)
  \/ BookCreateReview
  \/ BookUpdateReview
  \/ BookDeleteReview
  \/ Answer
  \/ DeliverMut

InitTwice == InitWith([req |-> MaxReq, mut |-> MaxMut + 1])

SpecTwice == InitTwice /\ [][NextTwice]_vars

\* reading reviews: the book detail view and My Reviews, two users on one
\* client, every moderation status of alice's review, bob's review public or
\* absent
ModeratedServerStates ==
  { [shelf  |-> [u \in Users |-> "absent"],
     review |-> [u \in Users |-> IF u = "alice" THEN a ELSE b],
     rating |-> Unrated] :
       a \in {"pending", "approved", "rejected"}, b \in {"none", "approved"} }

NextRender ==
  \/ \E p \in {LoginPage, BookOL1W, ReviewsPage} : Navigate(p)
  \/ \E u \in Users : Login(u)
  \/ SessionExpire
  \/ \E u \in Users : toggleSpoiler(u)
  \/ Answer

InitRender == InitFrom([req |-> MaxReq, mut |-> MaxMut], ModeratedServerStates)

SpecRender == InitRender /\ [][NextRender]_vars

\* moderation with room for a second request
InitModerate == InitWith([req |-> MaxReq + 1, mut |-> MaxMut + 1])

SpecModerate == InitModerate /\ [][NextAdmin]_vars

\* the author edits a moderated review: My Reviews, its Edit link to the book
\* detail view, the review form
NextEdit ==
  \/ \E p \in {LoginPage, ReviewsPage, BookWorksOL1W} : Navigate(p)
  \/ Login("alice")
  \/ BookUpdateReview
  \/ Answer
  \/ DeliverMut

SpecEdit == InitRender /\ [][NextEdit]_vars

\* the rating aggregate of the book response: every count up to MaxCount with
\* every average string, consistent or not
AverageRatings == {"null", "0", "0.0", "4.5"}

RatedServerStates ==
  { [shelf  |-> [u \in Users |-> "absent"],
     review |-> [u \in Users |-> "none"],
     rating |-> [Unrated EXCEPT !.averageRating = a, !.reviewCount = n]] :
       a \in AverageRatings, n \in 0..MaxCount }

NextRating ==
  \/ \E p \in {LoginPage, BookOL1W, BookOL1WIsbn} : Navigate(p)
  \/ Login("alice")
  \/ \E k \in BookKeys : Expire(k)
  \/ Answer

InitRating == InitFrom([req |-> MaxReq, mut |-> MaxMut], RatedServerStates)

SpecRating == InitRating /\ [][NextRating]_vars

\* a breakdown of total ratings with count of them in the top bucket
Split(count, total) ==
  [s \in Stars |-> IF s = 5 THEN count ELSE IF s = 1 THEN total - count ELSE 0]

\* book responses carrying every breakdown of up to MaxTotal ratings, in both
\* sources
BreakdownServerStates ==
  { [shelf  |-> [u \in Users |-> "absent"],
     review |-> [u \in Users |-> "none"],
     rating |-> [averageRating |-> "4.5", reviewCount |-> t,
                 reprintBreakdown |-> Split(c, t),
                 openLibraryRatings |->
                   [null |-> FALSE, average |-> "4.5", count |-> t,
                    breakdown |-> Split(c, t)]]] :
       <<c, t>> \in {x \in (0..MaxTotal) \X (0..MaxTotal) : x[1] <= x[2]} }

NextBars ==
  \/ \E p \in {LoginPage, BookOL1W} : Navigate(p)
  \/ \E k \in BookKeys : Expire(k)
  \/ Answer

SpecBars == InitFrom([req |-> MaxReq, mut |-> MaxMut], BreakdownServerStates)
              /\ [][NextBars]_vars

\* the rating part of book responses: local and external figures, each absent,
\* empty or present, in every combination
RatingInputs ==
  { [averageRating |-> a, reviewCount |-> n, reprintBreakdown |-> b,
     openLibraryRatings |-> o] :
       a \in {"null", "4.5"}, n \in 0..MaxCount,
       b \in {NoBreakdown, Split(1, MaxCount)},
       o \in {NoOpenLibraryRatings} \cup
             { [null |-> FALSE, average |-> oa, count |-> on, breakdown |-> ob] :
                 oa \in {"0.0", "4.5"}, on \in 0..MaxCount,
                 ob \in {NoBreakdown, Split(1, MaxCount)} } }

SourceServerStates ==
  { [shelf  |-> [u \in Users |-> "absent"],
     review |-> [u \in Users |-> "none"],
     rating |-> d] : d \in RatingInputs }

SpecSources == InitFrom([req |-> MaxReq, mut |-> MaxMut], SourceServerStates)
                 /\ [][NextBars]_vars

\* every way the cache is written: reads, shelf mutations from two views,
\* failures, logout
NextWrites ==
  \/ \E p \in {LoginPage, DefaultLibraryKey, BookOL1W} : Navigate(p)
  \/ Login("alice")
  \/ BookAddToLibrary("reading")
  \/ \E w \in WorkKeys : LibraryUpdate(w, "read")
  \/ HandleLogout
  \/ LogoutDone
  \/ \E r \in net : FetchFail(r)
  \/ \E r \in net : DropResponse(r)
  \/ Answer
  \/ DeliverMut

SpecWrites == Init /\ [][NextWrites]_vars

\* Object.keys(statusConfig), and the SelectItems of LibraryItemCard: the
\* statuses a status menu lists
statusConfig == {"want_to_read", "reading", "read"}

\* one reader's shelf entry through its life: add, set status (any status from
\* the book page, a move back to want_to_read from the list), remove
NextShelf ==
  \/ \E p \in {LoginPage, DefaultLibraryKey, BookOL1W} : Navigate(p)
  \/ Login("alice")
  \/ BookAddToLibrary("want_to_read")
  \/ \E st \in statusConfig : BookUpdateLibrary(st)
  \/ BookRemoveFromLibrary
  \/ \E w \in WorkKeys : LibraryUpdate(w, "want_to_read")
  \/ Answer
  \/ DeliverMut

InitShelf == InitWith([req |-> MaxReq, mut |-> MaxMut + 2])

SpecShelf == InitShelf /\ [][NextShelf]_vars

\* a mutation of every kind, from the book, library and admin views, by a reader
\* or a moderator, with its two outcomes
NextFailures ==
  \/ \E p \in {LoginPage, DefaultLibraryKey, BookOL1W, <<"admin", "pending">>} : Navigate(p)
  \/ \E u \in Users : Login(u)
  \/ BookAddToLibrary("reading")
  \/ \E w \in WorkKeys : LibraryUpdate(w, "read")
  \/ \E w \in WorkKeys : LibraryRemove(w)
  \/ BookCreateReview
  \/ BookUpdateReview
  \/ BookDeleteReview
  \/ \E k \in ModerationKinds, w \in WorkKeys : AdminAction(k, w, "alice")
  \/ Answer
  \/ DeliverMut

SpecFailures == Init /\ [][NextFailures]_vars

\* the guarded routes in every session state: loading, signed out, reader,
\* moderator
NextGate ==
  \/ \E p \in {LoginPage, DefaultLibraryKey, ReviewsPage, SettingsPage,
               <<"admin", "pending">>} : OpenRoute(p)
  \/ \E u \in Users \cup {NoUser} : SessionResolved(u)
  \/ \E u \in Users : Login(u)
  \/ HandleLogout
  \/ LogoutDone
  \/ SessionExpire
  \/ Answer

SpecGate == InitLoading([req |-> MaxReq, mut |-> MaxMut], InitServerStates) /\ [][NextGate]_vars

---------------------------------------------------------------------------
(* Claims *)

\* the last step was the success handler of a mutation of one of the kinds,
\* issued from the view
Succeeded(view, kinds) ==
  last.ev = "mutOK" /\ last.m.view = view /\ last.m.kind \in kinds

Invalid(k) == cache[k].st = "invalid"

WorkOf(key) == key[Len(key)]

\* every cached book-detail entry of the work that key names is invalid
BookEntriesInvalid(key) ==
  \A k \in DOMAIN cache : (k[1] = "book" /\ WorkOf(k[2]) = WorkOf(key)) => Invalid(k)

\* C2: after a successful set-status or remove for work W issued from the library
\* list view, the cached book-detail entry for W is invalid under every key form
\* the book detail view caches W under ('works/<id>' and the bare '<id>').
C2_LibraryInvalidatesBook ==
  Succeeded("library", {"updateLibraryItem", "removeFromLibrary"}) =>
    \A k \in DOMAIN cache :
      (k[1] = "book" /\ k[2] \in KeyFormsOf(last.m.wk)) => Invalid(k)

\* C3: after a successful create, update or delete of a review for work W, from
\* the book detail view or from My Reviews, the cached book-detail entry for W and
\* the cached userReviews entry are both invalid.
C3_ReviewInvalidatesBoth ==
  (Succeeded("book", ReviewKinds) \/ Succeeded("reviews", ReviewKinds)) =>
    /\ BookEntriesInvalid(last.m.wk)
    /\ Cached(cache, UserReviewsKey) => Invalid(UserReviewsKey)

\* C4: after a successful approve or reject of a review of work W, every cached
\* adminReviews entry, the adminStats entry and the cached book-detail entry for
\* W are invalid.
C4_ModerationInvalidates ==
  Succeeded("admin", ModerationKinds) =>
    /\ \A k \in DOMAIN cache : k[1] \in {"adminReviews", "adminStats"} => Invalid(k)
    /\ BookEntriesInvalid(last.m.wk)

\* C5: when logout completes the cache holds no entry at all, whatever was read
\* or fetched before, and no response still on the wire will be taken.
C5_LogoutClears ==
  last.ev = "logoutDone" => /\ DOMAIN cache = {}
                            /\ \A r \in net : ~Accepts(cache, r)

\* logout completes while a fetch issued under the session is still in flight
C5_Witness ==
  /\ last.ev = "logoutDone" /\ DOMAIN cache = {}
  /\ \E r \in net : r.user # NoUser /\ NeedsSession(r.key)

\* keys whose data depends on who reads
UserScoped(k) == k[1] \in {"library", "userReviews", "book"}

\* C6: a signed-in user's views never render, for the library, own-reviews or
\* book-detail keys, data that was fetched under another user's session.
C6_NoForeignData ==
  isAuthenticated =>
    \A k \in ObservedKeys(page) :
      (UserScoped(k) /\ HasData(k)) => cache[k].owner \in {session, NoUser}

\* C7 as stated: between mutations, expiries and clears, the reads of a key
\* cause at most one network call.
C7_OneCallPerKey == \A k \in DOMAIN cache : cache[k].calls <= 1

\* C7, amended: between mutations, expiries and clears, the reads of a key cause
\* at most one network call, plus one for every attempt that failed (the retry
\* of a failed attempt, and the fetch of the read that follows a failed fetch).
C7_OneCallPerAttempt ==
  \A k \in DOMAIN cache : cache[k].calls <= 1 + cache[k].failed

\* a second read of a key joins the request the first read left in flight
C7_Witness ==
  /\ last.ev = "navigate" /\ page = DefaultLibraryKey
  /\ Cached(cache, page) /\ cache[page].req # 0 /\ cache[page].data = NoData
  /\ cache[page].calls = 1 /\ cache[page].failed = 0

\* C8: once a mutation has succeeded, no view reading a key of its invalidation
\* set is shown a cached value older than the mutation.
C8_NoStaleRead ==
  \A k \in ObservedKeys(page) : HasData(k) => cache[k].data >= cache[k].mustSee

\* C9: of the requests on the wire for a key, only the one issued last can still
\* be stored, and it was issued after the request whose result the entry holds:
\* a superseded request's result is never stored, in whatever order the
\* responses arrive.
C9_LastRequestWins ==
  \A r \in net :
    Accepts(cache, r) =>
      /\ r.id > cache[r.key].dataId
      /\ \A o \in net : o.key = r.key => o.id <= r.id

\* the response of the later request was stored while the superseded request
\* is still on the wire
C9_Witness ==
  /\ last.ev = "fetchOK"
  /\ \E o \in net : o.key = last.key /\ o.id < cache[last.key].dataId

\* a read of key k now would issue a network call
ReadFetches(k) == Mount(World, k, session).nid = nid + 1

C11_MutationFailureShown == last.ev = "mutFailed" => toast = "error"

\* mutations m and o concern the same user's rows for the same work
SameItem(m, o) == m.target = o.target /\ WorkOf(m.wk) = WorkOf(o.wk)

\* C12: no two shelf mutation requests (add, set status, remove) for the same
\* library item are in flight at the same time.
C12_OneShelfMutationInFlight ==
  \A m, o \in mut :
    (m.kind \in LibraryKinds /\ o.kind \in LibraryKinds /\ SameItem(m, o)) => m = o

\* the mutation requests a step sends
Sent == {m \in mut' : m.id >= mid}

\* C13: an add-to-library request for work W is sent only while the server holds
\* no LibraryItem for (user, W) and no earlier add for W is unresolved.
C13_AddOnlyFromAbsent ==
  [][\A m \in Sent :
       m.kind = "addToLibrary" =>
         /\ srvNow.shelf[m.user] = "absent"
         /\ ~\E o \in mut : o.kind = "addToLibrary" /\ SameItem(m, o)]_vars

\* C14: a create-review request for work W is sent only while the user has no
\* review for W and no earlier create for W is unresolved.
C14_CreateOnlyWithoutReview ==
  [][\A m \in Sent :
       m.kind = "createReview" =>
         /\ srvNow.review[m.user] = "none"
         /\ ~\E o \in mut : o.kind = "createReview" /\ SameItem(m, o)]_vars

\* C15: in the book detail view a review flagged as a spoiler, shown to a reader
\* who is not its author and who has not revealed it, renders the placeholder;
\* the reader's own review always renders its content
C15_SpoilerHiddenUntilRevealed ==
  \A c \in BookCards :
    /\ (hasSpoilers(c.review) /\ c.review # session /\ c.review \notin revealedSpoilers)
         => ~showContent(c)
    /\ c.review = session => showContent(c)

\* C16: every approve or reject request the moderation view sends is for a
\* review whose status is pending when the request is sent
C16_ModerateOnlyPending ==
  [][\A m \in Sent : m.kind \in ModerationKinds => srvNow.review[m.target] = "pending"]_vars

\* a moderation status change the server makes: approve / reject of a pending
\* review, or an edit that sends an approved or rejected review back to pending
StatusStep(a, b) ==
  \/ a = b
  \/ a = "pending" /\ b \in {"approved", "rejected"}
  \/ a \in {"approved", "rejected"} /\ b = "pending"

\* the signed-in author's edit of an approved or rejected review has succeeded
\* and its success handler has run
EditDone ==
  /\ isAuthenticated /\ mut = {}
  /\ srvNow.review[session] = "pending"
  /\ \E v \in 1..Len(srv) : srv[v].review[session] \in {"approved", "rejected"}

\* the view on screen shows the author's review from settled data (no fetch of
\* the key is in flight) with this status
Shows(status) ==
  \/ /\ BookRendered /\ cache[page].req = 0
     /\ \E c \in YourReview(cache[page]) : c.status = status
  \/ /\ page = ReviewsPage /\ HasData(UserReviewsKey) /\ cache[UserReviewsKey].req = 0
     /\ MyReviewStatus = status

\* C17: a review's status moves only pending -> approved / rejected and
\* approved / rejected -> pending; once the author's edit of an approved or
\* rejected review has succeeded, a view that reads the review shows pending
C17_EditBackToPending ==
  /\ [][\A u \in Users : srvNow.review[u] # "none" /\ srvNow'.review[u] # "none"
                           => StatusStep(srvNow.review[u], srvNow'.review[u])]_vars
  /\ [](EditDone => ~(Shows("approved") \/ Shows("rejected")))

\* C18: in the book detail view every review card rendered to a reader who is
\* not the review's author is of an approved review
C18_OnlyApprovedToOthers ==
  \A c \in BookCards : c.review # session => c.status = "approved"

\* the data the view holds was fetched for the signed-in reader and carries a
\* review of theirs
OwnReviewOnBook ==
  /\ BookRendered /\ isAuthenticated /\ cache[page].owner = session
  /\ userReview(cache[page]) # "none"

OwnReviewOnMyReviews ==
  /\ page = ReviewsPage /\ isAuthenticated /\ HasData(UserReviewsKey)
  /\ cache[UserReviewsKey].owner = session
  /\ MyReviewStatus # "none"

C20_NoReviewsSentinel ==
  (BookRendered /\ Content(cache[page]).rating.reviewCount = 0) =>
     /\ RatingSummary(Content(cache[page]).rating).text = "No reviews yet"
     /\ RatingsTab(Content(cache[page]).rating).text = "No RePrint reviews yet"

\* a response with no reviews and an average of "0.0" is on screen
C20_Witness ==
  /\ BookRendered
  /\ Content(cache[page]).rating.averageRating = "0.0"
  /\ Content(cache[page]).rating.reviewCount = 0

\* 100 * count / total rounded to the nearest integer, halves up
HalfUp(count, total) == (200 * count + total) \div (2 * total)

\* the bars show, per bucket, the exact rounded percentage, within 0..100
ExactBars(bars, breakdown, total) ==
  \A s \in Stars :
    /\ bars[s].percentage = IF total > 0 THEN HalfUp(breakdown[s], total) ELSE 0
    /\ bars[s].percentage \in 0..100

\* C21: every bar of the local and of the external breakdown shows
\* 100 * count / total rounded to the nearest integer, halves up, within 0..100;
\* with a total of 0 the percentage is 0
C21_PercentageRounded ==
  BookRendered =>
    LET d == Content(cache[page]).rating
    IN  /\ ExactBars(Bars(d.reprintBreakdown, d.reviewCount),
                      d.reprintBreakdown, d.reviewCount)
        /\ ExactBars(Bars(d.openLibraryRatings.breakdown, d.openLibraryRatings.count),
                      d.openLibraryRatings.breakdown, d.openLibraryRatings.count)

\* the local and the external fields of the rating part of a response
LocalFields(d) == <<d.averageRating, d.reviewCount, d.reprintBreakdown>>
ExternalFields(d) == d.openLibraryRatings

\* C22: whatever other response agrees with the one on screen on the local
\* fields renders the same local rating (summary and tab), and whatever other
\* response agrees on openLibraryRatings renders the same external rating
C22_SourcesIndependent ==
  BookRendered =>
    LET d == Content(cache[page]).rating
    IN  \A o \in RatingInputs :
          /\ LocalFields(o) = LocalFields(d) =>
               /\ RatingSummary(o) = RatingSummary(d)
               /\ RatingsTab(o) = RatingsTab(d)
          /\ ExternalFields(o) = ExternalFields(d) =>
               /\ OpenLibrarySummary(o) = OpenLibrarySummary(d)
               /\ OpenLibraryTab(o) = OpenLibraryTab(d)

\* both figures are on screen and differ
C22_Witness ==
  /\ BookRendered
  /\ Content(cache[page]).rating.reviewCount = 1
  /\ HasOpenLibrary(Content(cache[page]).rating)
  /\ Content(cache[page]).rating.openLibraryRatings.count = MaxCount
  /\ RatingSummary(Content(cache[page]).rating).text
       # OpenLibrarySummary(Content(cache[page]).rating).text

\* C24: the sign-in prefetch uses the key and the request parameters of the
\* library view's first render; once the session is authenticated that key is
\* cached (in flight or with data), and mounting the library view on a fresh
\* entry sends no request
C24_PrefetchWarmsLibrary ==
  /\ [](/\ DefaultLibraryKey = LibraryInitialKey
        /\ getLibrary(PrefetchParams) = getLibrary(LibraryParams(LibraryInitialKey))
        /\ last.ev = "login" =>
             /\ Cached(cache, LibraryInitialKey)
             /\ HasData(LibraryInitialKey) \/ cache[LibraryInitialKey].req # 0)
  /\ [][(/\ page # LibraryInitialKey /\ page' = LibraryInitialKey
          /\ HasData(LibraryInitialKey) /\ cache[LibraryInitialKey].st = "fresh")
        => nid' = nid]_vars

\* the library view opened on the prefetched entry: one request was sent for
\* the key in all
C24_Witness ==
  /\ page = LibraryInitialKey /\ last.ev = "navigate"
  /\ HasData(LibraryInitialKey) /\ cache[LibraryInitialKey].st = "fresh"
  /\ cache[LibraryInitialKey].calls = 1 /\ nid = 2

\* C25: the data of a cached entry changes only in the step that stores the
\* response of a fetch of its key, and an entry disappears only when logout
\* clears the cache; an entry is created without data; mutation handlers leave
\* every entry's data as it is
C25_OnlyFetchWritesData ==
  [][/\ \A k \in DOMAIN cache :
          /\ k \notin DOMAIN cache' => last'.ev = "logoutDone"
          /\ (k \in DOMAIN cache' /\ cache'[k].data # cache[k].data)
               => last'.ev = "fetchOK" /\ last'.key = k
     /\ \A k \in DOMAIN cache' \ DOMAIN cache : cache'[k].data = NoData]_vars

\* a mutation has succeeded: an entry is marked invalid and still holds the data
\* from before the mutation
C25_Witness ==
  /\ last.ev = "mutOK"
  /\ \E k \in DOMAIN cache :
       cache[k].st = "invalid" /\ cache[k].data # NoData /\ cache[k].data < last.m.ver

\* the request a step sends, NoMut when it sends none
Request == IF \E m \in mut' : m.id >= mid THEN CHOOSE m \in mut' : m.id >= mid
           ELSE NoMut

\* the shelf entry the view on screen shows for the work: the book page's
\* libraryItem, the library list's item under the tab
Shown ==
  CASE BookRendered -> libraryItem(cache[page])
    [] \E w \in WorkKeys : LibraryLists(w) -> libraryItem(cache[page])
    [] OTHER -> "absent"

\* the status menu of a shown entry sends each of the statuses (the library
\* list's Select is disabled while an update of that view is pending)
Offered ==
  (isAuthenticated /\ Shown # "absent" /\ mid <= quota.mut) =>
     \A st \in statusConfig :
        \/ page[1] = "book" /\ ENABLED BookUpdateLibrary(st)
        \/ page[1] = "library" /\ isUpdating
        \/ page[1] = "library" /\ \A w \in WorkKeys : ENABLED LibraryUpdate(w, st)

\* the server's rows of user u over time
Rows(u) == [v \in 1..Len(srv) |-> srv[v].shelf[u]]

\* C26: from a shown shelf entry of any status the status menu offers all three
\* statuses; a request sent from a view that shows an entry is an update or a
\* removal addressed to that entry, never an add, and an add is sent only from
\* a view that shows none; each action sends one request, so add, set status,
\* remove ask for one creation, one update in place and one deletion of one row
C26_SetStatusUpdatesInPlace ==
  /\ [](Offered)
  /\ [][Request # NoMut =>
          /\ mut' = mut \cup {Request} /\ mid' = mid + 1
          /\ Request.kind \in LibraryKinds
          /\ Shown # "absent" =>
               /\ Request.kind \in {"updateLibraryItem", "removeFromLibrary"}
               /\ Request.target = cache[page].owner
               /\ Request.kind = "updateLibraryItem" => Request.status \in statusConfig
          /\ Shown = "absent" => Request.kind = "addToLibrary" /\ Request.target = session]_vars

\* add(want_to_read), set status(reading), remove have been carried out: three
\* requests, and alice's row went absent, want_to_read, reading, absent
C26_Witness ==
  /\ mid = 4 /\ mut = {}
  /\ Rows("alice") = <<"absent", "want_to_read", "reading", "absent">>

\* C27: a mutation request that fails changes no cache entry: neither sending
\* it nor its failure invalidates, removes or rewrites a query or starts a fetch
C27_FailureLeavesCache ==
  [][last'.ev \in {"mutate", "mutFailed"} => cache' = cache /\ net' = net]_vars

\* a mutation has failed whose success handler would have invalidated an entry
\* that holds data and is still fresh
C27_Witness ==
  /\ last.ev = "mutFailed"
  /\ \E k \in InvalidationSet(last.m) \cap DOMAIN cache :
       cache[k].data # NoData /\ cache[k].st = "fresh"

\* the moderation requests in flight that the mounted admin view sent
Moderating == {m \in mut : m.mounted /\ m.kind \in ModerationKinds}

\* the pending tab lists user u's review
Listed(u) ==
  /\ page = <<"admin", "pending">> /\ HasData(<<"adminReviews", "pending">>)
  /\ Content(cache[<<"adminReviews", "pending">>]).review[u] = "pending"

\* C28: a mounted moderation view has at most one approve or reject request in
\* flight: while one is unresolved no Approve or Reject button of a listed
\* review sends another
C28_OneModerationInFlight ==
  /\ Cardinality(Moderating) <= 1
  /\ Moderating # {} =>
       \A k \in ModerationKinds, w \in WorkKeys, u \in Users : ~ENABLED AdminAction(k, w, u)

\* a moderation request is unresolved while the pending tab lists a review and
\* the view could send one more request
C28_Witness ==
  /\ Moderating # {} /\ mid <= quota.mut
  /\ \E u \in Users : Listed(u)

\* C29: the library, reviews and settings views are on screen only with the
\* session resolved and a user signed in, the admin view only if that user is
\* an admin; opening a guarded route shows the placeholder while the session
\* loads (no view, no redirect), the sign-in page without a session, the home
\* page for a signed-in user who is not an admin on the admin route, and the
\* view otherwise
C29_ProtectedViewsGated ==
  /\ [](/\ page[1] \in {"library", "reviews", "settings"} => ~isLoading /\ isAuthenticated
        /\ page[1] = "admin" => ~isLoading /\ isAdmin)
  /\ [][(last'.ev \in {"route", "resolved"} /\ Protected(last'.key)) =>
          /\ isLoading' => page' = Skeleton(last'.key)
          /\ (~isLoading' /\ session' = NoUser) => page' = LoginPage
          /\ (~isLoading' /\ session' # NoUser /\ last'.key[1] = "admin"
                /\ Role(session') # "admin") => page' = HomePage
          /\ (~isLoading' /\ session' # NoUser
                /\ (last'.key[1] = "admin" => Role(session') = "admin")) => page' = last'.key]_vars

\* the admin route was opened while the session loaded, and the session has
\* resolved to a reader: the home page is shown
C29_Witness ==
  /\ last.ev = "resolved" /\ last.key[1] = "admin"
  /\ session = "alice" /\ ~isLoading /\ page = HomePage

\* C30: to a signed-in reader the Community Reviews list of the book detail view
\* shows no review of their own, whatever reviews the response lists; a card of
\* their own review on the page is the "Your Review" card, there only when the
\* response carries the review as userReview
C30_OwnReviewNotInCommunity ==
  (BookRendered /\ isAuthenticated) =>
     /\ \A rs \in SUBSET Users :
          \A c \in CommunityCards(rs, cache[page]) : c.review # session
     /\ \A c \in BookCards :
          c.review = session =>
            /\ c \in YourReview(cache[page]) /\ c.isOwn
            /\ cache[page].owner = session /\ userReview(cache[page]) # "none"

\* the response on screen lists the signed-in reader's approved review and
\* carries it as userReview
C30_Witness ==
  /\ BookRendered /\ isAuthenticated
  /\ session \in reviews(cache[page])
  /\ cache[page].owner = session /\ userReview(cache[page]) = "approved"

====
